---- MODULE Spec2Model ----
(***************************************************************************)
(* Model of the music back end of the bot:                                 *)
(*   - the track resolver, bot/commands/music/tracks.py                    *)
(*     (Track.from_query, _infer_from_url and the factory functions);      *)
(*   - the guild player, bot/commands/music/player.py                      *)
(*     (Player: queue, position, player loop task, "Now playing" message). *)
(*                                                                         *)
(* Strings are sequences of tokens.  The tokens "<" and ">" are the two    *)
(* bracket characters; every other token stands for a maximal piece of     *)
(* text that holds no bracket:                                             *)
(*   "yt"  text such as https://youtube.com/watch?v=abc                    *)
(*   "sp"  text such as https://open.spotify.com/track/1Kxw?si=07          *)
(*   "sc"  text such as https://soundcloud.com/rarinmusic/gta              *)
(*   "w"   any other text (a free-text search such as "let her go")        *)
(***************************************************************************)
EXTENDS Integers, Sequences, FiniteSets, TLC

\* ------------------------------------------------------------------ bounds
\* Most bracket characters put before, and after, the text of a query.
MaxBr == 1
\* Most play_track calls made on the player.
MaxReq == 2
\* Most disconnect_player calls made on the player.
MaxDisc == 2
\* Most player loop tasks ever created for the player.
MaxTasks == 3
\* Most get_player calls made on the cog.
MaxLookups == 3
\* Most tracks appended to the queue of the Player of the other guild.
MaxPeerReq == 1

\* ------------------------------------------------------------- tracks.py
YOUTUBE == "YouTube"
SPOTIFY == "Spotify"
SOUNDCLOUD == "SoundCloud"
Platform == {YOUTUBE, SPOTIFY, SOUNDCLOUD}
\* The value None of Python.
None == "None"

Cores == {"yt", "sp", "sc", "w"}

RECURSIVE Rep(_, _)
Rep(ch, n) == IF n = 0 THEN <<>> ELSE <<ch>> \o Rep(ch, n - 1)

\* The query strings the model draws from: a text, bare or in brackets
\* (balanced or not).
Queries ==
    { Rep("<", i) \o <<c>> \o Rep(">", j) : i \in 0..MaxBr, j \in 0..MaxBr, c \in Cores }

\* str.lstrip("<"): drops every leading "<".
RECURSIVE LStrip(_)
LStrip(s) == IF s # <<>> /\ Head(s) = "<" THEN LStrip(Tail(s)) ELSE s

\* str.rstrip(">"): drops every trailing ">".
RECURSIVE RStrip(_)
RStrip(s) ==
    IF s # <<>> /\ s[Len(s)] = ">" THEN RStrip(SubSeq(s, 1, Len(s) - 1)) ELSE s

\* youtube_pattern.match: scheme, host and "/" followed by any text (.+$).
youtube_pattern(s) == s # <<>> /\ Head(s) = "yt"

\* spotify_pattern.match: a track URL followed by any text (\??.+$).
spotify_pattern(s) == s # <<>> /\ Head(s) = "sp"

\* soundcloud_pattern.match: the permalink must end the string
\* ([\w\-\.]+\/?$ admits no bracket).
soundcloud_pattern(s) == s = <<"sc">>

\* _infer_from_url
InferFromUrl(string) ==
    LET s == RStrip(LStrip(string))
    IN  IF youtube_pattern(s) THEN YOUTUBE
        ELSE IF spotify_pattern(s) THEN SPOTIFY
        ELSE IF soundcloud_pattern(s) THEN SOUNDCLOUD
        ELSE None

\* The platform argument of Track.from_query: a member of Platform, or left
\* out, in which case the parameter takes its default.
Omitted == "omitted"
Hints == Platform \cup {Omitted}
HintOrDefault(h) == IF h = Omitted THEN YOUTUBE ELSE h

\* What Track.from_query does before it reaches the executor: either it
\* raises, or it picks the helper that the executor is to run.
Raise(e) == [kind |-> "raise", exc |-> e]
Dispatch(f) == [kind |-> "dispatch", func |-> f]

\* Track.from_query that lets the SoundCloud helper run on any input.
FromQueryNoCheck(query_or_url, platform) ==
    LET test == InferFromUrl(query_or_url)
        p == IF test # None THEN test ELSE platform
    IN  CASE p = YOUTUBE -> Dispatch("make_youtube_track")
          [] p = SPOTIFY ->
                IF test = None THEN Dispatch("make_spotify_track_from_search")
                ELSE Dispatch("make_spotify_track_from_url")
          [] p = SOUNDCLOUD -> Dispatch("make_soundcloud_track_from_url")
          [] OTHER -> Raise("InvariantError")

\* Track.from_query that keeps the platform hint when the input is a URL.
FromQueryKeepHint(query_or_url, platform) ==
    LET test == InferFromUrl(query_or_url)
        p == platform
    IN  CASE p = YOUTUBE -> Dispatch("make_youtube_track")
          [] p = SPOTIFY ->
                IF test = None THEN Dispatch("make_spotify_track_from_search")
                ELSE Dispatch("make_spotify_track_from_url")
          [] p = SOUNDCLOUD ->
                IF test = None THEN Raise("ValueError")
                ELSE Dispatch("make_soundcloud_track_from_url")
          [] OTHER -> Raise("InvariantError")

\* Track.from_query, up to loop.run_in_executor
FromQuery(query_or_url, platform) ==
    LET test == InferFromUrl(query_or_url)
        p == IF test # None THEN test ELSE platform
    IN  CASE p = YOUTUBE -> Dispatch("make_youtube_track")
          [] p = SPOTIFY ->
                IF test = None THEN Dispatch("make_spotify_track_from_search")
                ELSE Dispatch("make_spotify_track_from_url")
          [] p = SOUNDCLOUD ->
                IF test = None THEN Raise("ValueError")
                ELSE Dispatch("make_soundcloud_track_from_url")
          [] OTHER -> Raise("InvariantError")

\* What ytdl.extract_info can answer:
\*   "video"     the info dict of one video
\*   "playlist"  a dict with "entries" whose first entry is a video
\*   "empty"     a dict with "entries" == [] (a search without results)
\*   "null"      a dict with "entries" whose first entry is None
\*   "none"      None
\*   "error"     it raises
\*   "blank"     the info dict of one video whose "url" is empty or blank
YtAnswers == {"video", "playlist", "blank", "empty", "null", "none", "error"}
\* The answers of a YouTube search that found nothing.
YtNoResult == {"empty", "null", "none", "error"}

\* What spotify.search / spotify.track can answer: a track, a track whose
\* name is empty or blank ("blank"), or nothing (no item in the page;
\* tekore.BadRequest for a track id).
SpAnswers == {"track", "blank", "nothing"}

\* What soundcloud.resolve can answer: a track, another resource
\* (a playlist), or TypeError for a URL it cannot resolve.
ScAnswers == {"track", "other", "TypeError"}

\* What a call yields: a value, None, or (Raise) an exception.
Ok(v) == [kind |-> "ok", value |-> v]
NoneValue == [kind |-> "none"]
IsRaise(r) == r.kind = "raise"
IsNone(r) == r.kind = "none"
IsOk(r) == r.kind = "ok"

\* _get_info_dict: None, the info dict, or the exception that escapes it
\* (data["entries"][0] on an empty list).
GetInfoDict(yt) ==
    CASE yt = "error" -> NoneValue
      [] yt = "none" -> NoneValue
      [] yt = "empty" -> Raise("IndexError")
      [] yt = "null" -> NoneValue
      [] yt \in {"video", "playlist"} -> Ok([url |-> "text"])
      [] yt = "blank" -> Ok([url |-> "blank"])

\* A Track, as far as the model tells tracks apart: its platform, and
\* whether its title, artist and stream URL are text ("text") or empty or
\* blank ("blank").
TrackOf(platform, title, artist, stream_url) ==
    [platform |-> platform, title |-> title, artist |-> artist,
     stream_url |-> stream_url]

\* _unpack_spotify_track that takes the platform from where the stream is.
UnpackSpotifyTrackYoutube(sp, yt) ==
    LET data == GetInfoDict(yt)
    IN  IF IsRaise(data) THEN data
        ELSE IF IsNone(data) THEN NoneValue
        ELSE Ok(TrackOf(YOUTUBE, IF sp = "blank" THEN "blank" ELSE "text", "text",
                        data.value.url))

\* _unpack_spotify_track, for the track sp that Spotify answered: None, the
\* kwargs of the Track, or an exception.
UnpackSpotifyTrack(sp, yt) ==
    LET title == IF sp = "blank" THEN "blank" ELSE "text"
        data == GetInfoDict(yt)
    IN  IF IsRaise(data) THEN data
        ELSE IF IsNone(data) THEN NoneValue
        ELSE Ok(TrackOf(SPOTIFY, title, "text", data.value.url))

\* kwargs = _unpack_spotify_track(track) or _raise_stream_not_found(track)
\* return Track(**kwargs)
SpotifyTrackOrRaise(sp, yt) ==
    LET kwargs == UnpackSpotifyTrack(sp, yt)
    IN  IF IsRaise(kwargs) THEN kwargs
        ELSE IF IsNone(kwargs) THEN Raise("NotFoundError")
        ELSE kwargs

\* make_youtube_track
MakeYoutubeTrack(yt) ==
    LET data == GetInfoDict(yt)
    IN  IF IsRaise(data) THEN data
        ELSE IF IsNone(data) THEN Raise("NotFoundError")
        ELSE Ok(TrackOf(YOUTUBE, "text", "text", data.value.url))

\* make_spotify_track_from_search
MakeSpotifyTrackFromSearch(sp, yt) ==
    IF sp = "nothing" THEN Raise("NotFoundError") ELSE SpotifyTrackOrRaise(sp, yt)

\* make_spotify_track_from_url
MakeSpotifyTrackFromUrl(sp, yt) ==
    IF sp = "nothing" THEN Raise("NotFoundError") ELSE SpotifyTrackOrRaise(sp, yt)

\* make_soundcloud_track_from_url
MakeSoundcloudTrackFromUrl(sc) ==
    CASE sc = "TypeError" -> Raise("NotFoundError")
      [] sc = "other" -> Raise("NotFoundError")
      [] sc = "track" -> Ok(TrackOf(SOUNDCLOUD, "text", "text", "text"))

\* The helper func run in the executor, given the remote answers.
RunHelper(func, sp, yt, sc) ==
    CASE func = "make_youtube_track" -> MakeYoutubeTrack(yt)
      [] func = "make_spotify_track_from_search" -> MakeSpotifyTrackFromSearch(sp, yt)
      [] func = "make_spotify_track_from_url" -> MakeSpotifyTrackFromUrl(sp, yt)
      [] func = "make_soundcloud_track_from_url" -> MakeSoundcloudTrackFromUrl(sc)

\* The remote calls the helper func makes, in order.
RemoteCalls(func, sp) ==
    CASE func = "make_youtube_track" -> <<"ytdl">>
      [] func \in {"make_spotify_track_from_search", "make_spotify_track_from_url"} ->
            IF sp = "nothing" THEN <<"spotify">> ELSE <<"spotify", "ytdl">>
      [] func = "make_soundcloud_track_from_url" -> <<"soundcloud">>

\* ---------------------------------------------------------------- cog.py
\* The guilds and the text channels that commands come from.
Guilds == {"g1", "g2"}
Channels == {"c1", "c2"}

\* The Context of a command invoked in guild g, in channel ch.
Context(g, ch) == [bot |-> "bot", guild |-> g, channel |-> ch]

\* Player(*args), a call of Player.__init__(self, ctx): the new Player (its
\* guild and its text channel), or TypeError when the arguments are not
\* the one ctx.
PlayerNew(args) ==
    IF Len(args) = 1
    THEN Ok([guild |-> args[1].guild, text_channel |-> args[1].channel])
    ELSE Raise("TypeError")

\* The voice channels of the guild and the members that issue commands.
VoiceChannels == {"v1", "v2"}
Members == {"u1", "u2"}

\* No join or play command was issued yet.
NoCommand == [cmd |-> None, author |-> None, channel |-> None, sent |-> None,
              ret |-> None, player |-> None]

\* The guild when the cog is loaded: the bot has no voice client, nobody is
\* in a voice channel.
NewVoice == [bot |-> None, connected |-> FALSE,
             at |-> [m \in Members |-> None], last |-> NoCommand]

\* logs = _GuildLoggers(): an empty dict; no logger has a handler yet.
NewLogs == [map |-> [g \in Guilds |-> None],
            setups |-> [g \in Guilds |-> 0],
            handlers |-> [g \in Guilds |-> 0],
            calls |-> <<>>]

\* -------------------------------------------------------------- state
VARIABLES
    res,        \* the Track.from_query call under observation
    queue,      \* Player._queue: the tracks, in the order they were appended
    pos,        \* Player._pos
    vc,         \* guild.voice_client: "none" (None), or the state of the
                \* voice client: "idle", "playing", "paused", "closing"
    tasks,      \* every player loop task created so far
    loopTask,   \* Player._loop_task: an index into tasks
    np,         \* Player._np_message: a message id, 0 for None
    live,       \* the "Now playing" messages that exist in the channel
    msgs,       \* how many "Now playing" messages were sent so far
    reqs,       \* every play_track call made so far, in the order made
    played,     \* the tracks the voice client began to play, in order
    discs,      \* how many disconnect_player calls were made so far
    lastTick,   \* how the last call of _run_one_iteration that is over ended:
                \* "busy" (the voice client was playing or paused),
                \* "cleared" (the queue was exhausted), "played", "raised";
                \* "none" before the first one
    peer,       \* the Player of another guild: its queue, position, voice
                \* client, loop task and "Now playing" message
    sources,    \* the source that vc.play was given, for each track that
                \* the voice client began to play
    npFor,      \* for each "Now playing" message sent, the track it shows
    players,    \* MusicCog._players: the player registered for each guild
    lookups,    \* every get_player call made so far, with what it yielded
    voice,      \* the voice channels of the guild: the channel of the voice
                \* client (bot), whether it is connected, the channel each
                \* member is in (at), and the last join or play command (last)
    logs,       \* logger.logs: the logger stored for each guild (map), how
                \* often each was set up, its handlers, every lookup so far
    finished,   \* the tracks that the voice client played to their end
    discPos     \* _pos at the call of the disconnect_player that interrupted a
                \* track (playing or paused), until another disconnect_player
                \* call or the next connect; -1 otherwise

playerVars == <<voice, logs, finished, players, lookups, peer, sources, npFor, queue, pos, vc, tasks, loopTask, np, live, msgs, reqs, played, discs, lastTick, discPos>>
vars == <<res, voice, logs, finished, players, lookups, peer, sources, npFor, queue, pos, vc, tasks, loopTask, np, live, msgs, reqs, played, discs, lastTick, discPos>>

\* A loop task: where its coroutine is suspended, and whether a
\* cancellation was requested that it has not yet received.
\*   "sleep"    created or in asyncio.sleep: about to run an iteration
\*   "del"      playing: awaits the delete of the old "Now playing" message
\*   "send"     playing: awaits the send of the new "Now playing" message
\*   "exdel"    queue exhausted: awaits the delete of the message
\*   "cleanup"  in the finally block: awaits the delete of the message
\*   "done"     the task is done
\* track is the local variable track of _run_one_iteration (the request
\* that the track is of; 0 when there is none); notFound tells whether the
\* delete awaited in this iteration met discord.NotFound.
NewTask == [pc |-> "sleep", cancel |-> FALSE, track |-> 0, notFound |-> FALSE]

\* The Player of another guild, once constructed: its voice client (vc), its
\* _queue, _pos, whether its loop task is done (loop) and _np_message (np).
NewPeer == [vc |-> "none", queue |-> <<>>, pos |-> 0, loop |-> "sleep", np |-> 0]

TaskIds == DOMAIN tasks
Active(ts) == {t \in DOMAIN ts : ts[t].pc # "done"}

\* The state once a Player is constructed (Player.__init__); the guild may
\* or may not have a voice client at that time.
Init ==
    /\ res = [stage |-> "idle", query |-> <<>>, arg |-> <<>>, given |-> Omitted,
              hint |-> YOUTUBE, func |-> None,
              sp |-> None, yt |-> None, sc |-> None, calls |-> <<>>,
              executor |-> FALSE, result |-> NoneValue]
    /\ queue = <<>>
    /\ pos = 0
    /\ vc \in {"none", "idle"}
    /\ tasks = <<NewTask>>
    /\ loopTask = 1
    /\ np = 0
    /\ live = {}
    /\ msgs = 0
    /\ reqs = <<>>
    /\ played = <<>>
    /\ discs = 0
    /\ lastTick = "none"
    /\ discPos = -1
    /\ players = [g \in Guilds |-> None]
    /\ lookups = <<>>
    /\ peer = NewPeer
    /\ sources = <<>>
    /\ npFor = <<>>
    /\ voice = NewVoice
    /\ finished = {}
    /\ logs = NewLogs

\* loop.run_in_executor(None, func, query_or_url): the argument that the
\* helper, and through it the client of the platform, is given.
HelperArgument(query_or_url) == query_or_url

\* ---------------------------------------------- the resolver on its own
\* Track.from_query is called: it raises, or hands the helper to the
\* executor.
FromQueryCall(q, given) ==
    /\ res.stage # "executor"
    /\ LET hint == HintOrDefault(given)
           d == FromQuery(q, hint)
       IN  res' = IF d.kind = "raise"
                  THEN [stage |-> "done", query |-> q, arg |-> <<>>,
                        given |-> given, hint |-> hint,
                        func |-> None, sp |-> None, yt |-> None, sc |-> None,
                        calls |-> <<>>, executor |-> FALSE, result |-> d]
                  ELSE [stage |-> "executor", query |-> q,
                        arg |-> HelperArgument(q), given |-> given,
                        hint |-> hint, func |-> d.func, sp |-> None, yt |-> None,
                        sc |-> None, calls |-> <<>>, executor |-> TRUE,
                        result |-> NoneValue]
    /\ UNCHANGED playerVars

\* The executor runs the helper, which makes its remote calls.
ExecutorRun(sp, yt, sc) ==
    /\ res.stage = "executor"
    /\ res' = [res EXCEPT !.stage = "done",
                          !.sp = sp,
                          !.yt = yt,
                          !.sc = sc,
                          !.calls = RemoteCalls(res.func, sp),
                          !.result = RunHelper(res.func, sp, yt, sc)]
    /\ UNCHANGED playerVars

NextResolve ==
    \/ \E q \in Queries, given \in Hints : FromQueryCall(q, given)
    \/ \E sp \in SpAnswers, yt \in YtAnswers, sc \in ScAnswers : ExecutorRun(sp, yt, sc)

SpecResolve == Init /\ [][NextResolve]_vars

\* --------------------------------------------- the registry on its own
\* get_player(ctx), ctx being a command in guild g and channel ch: it
\* returns the player registered for g, or else constructs one with
\* Player(self.bot, guild), registers and returns it.
GetPlayer(g, ch) ==
    /\ Len(lookups) < MaxLookups
    /\ LET ctx == Context(g, ch)
       IN  IF players[ctx.guild] # None
           THEN /\ lookups' = Append(lookups, [guild |-> g, channel |-> ch,
                                               result |-> Ok(players[ctx.guild])])
                /\ UNCHANGED players
           ELSE LET new_player == PlayerNew(<<ctx.bot, ctx.guild>>)
                IN  IF IsRaise(new_player)
                    THEN /\ lookups' = Append(lookups, [guild |-> g, channel |-> ch,
                                                        result |-> new_player])
                         /\ UNCHANGED players
                    ELSE /\ players' = [players EXCEPT ![ctx.guild] = new_player.value]
                         /\ lookups' = Append(lookups, [guild |-> g, channel |-> ch,
                                                        result |-> new_player])
    /\ UNCHANGED <<res, voice, logs, finished, peer, sources, npFor, queue, pos, vc, tasks, loopTask, np, live, msgs, reqs, played, discs, lastTick, discPos>>

NextRegistry == \E g \in Guilds, ch \in Channels : GetPlayer(g, ch)

SpecRegistry == Init /\ [][NextRegistry]_vars

\* ------------------------------------------- joining a voice channel
\* has_humans(channel): some member that is in the channel is not a bot.
HasHumans(at, channel) == \E m \in Members : at[m] = channel

\* _join_channel that does not look at who is in the channel of the bot.
JoinChannelAnyway(v, author, channel) ==
    LET ch == IF channel = None THEN v.at[author] ELSE channel
    IN  IF ch = None
        THEN [bot |-> v.bot, connected |-> v.connected,
              sent |-> "connect_first", ret |-> None]
        ELSE IF v.bot = None
        THEN [bot |-> ch, connected |-> TRUE, sent |-> None, ret |-> ch]
        ELSE [bot |-> ch, connected |-> v.connected, sent |-> None, ret |-> ch]

\* _join_channel(ctx, channel), ctx.author being author: the channel and
\* the connection of the voice client after the call, the message it sent
\* (None: nothing) and what it returns. channel.connect raises
\* ClientException when the guild has a voice client already, and
\* change_voice_state then moves it.
JoinChannel(v, author, channel) ==
    LET ch == IF channel = None THEN v.at[author] ELSE channel
    IN  IF ch = None
        THEN [bot |-> v.bot, connected |-> v.connected,
              sent |-> "connect_first", ret |-> None]
        ELSE IF v.bot # None /\ v.connected /\ HasHumans(v.at, v.bot) /\ ch # v.bot
        THEN [bot |-> v.bot, connected |-> v.connected,
              sent |-> "in_use", ret |-> None]
        ELSE IF v.bot = None
        THEN [bot |-> ch, connected |-> TRUE, sent |-> None, ret |-> ch]
        ELSE [bot |-> ch, connected |-> v.connected, sent |-> None, ret |-> ch]

\* The join command of author, with or without a channel.
JoinCommand(author, channel) ==
    /\ LET j == JoinChannel(voice, author, channel)
       IN  voice' = [voice EXCEPT
                       !.bot = j.bot,
                       !.connected = j.connected,
                       !.last = [cmd |-> "join", author |-> author,
                                 channel |-> channel,
                                 sent |-> IF j.ret = None THEN j.sent ELSE "connected",
                                 ret |-> j.ret, player |-> None]]
    /\ UNCHANGED <<res, logs, finished, players, lookups, peer, sources, npFor, queue, pos, vc, tasks, loopTask, np, live, msgs, reqs, played, discs, lastTick, discPos>>

\* The play command of author in guild g: _join_channel(ctx, None), then
\* get_player(ctx) and play_track on the player (player: "play_track" when
\* play_track was called, the exception of get_player when it raised, None
\* when the command returned before).
PlayCommand(author, g) ==
    /\ LET j == JoinChannel(voice, author, None)
           ctx == Context(g, "c1")
           player == IF j.ret = None THEN NoneValue
                     ELSE IF players[ctx.guild] # None THEN Ok(players[ctx.guild])
                     ELSE PlayerNew(<<ctx.bot, ctx.guild>>)
       IN  /\ voice' = [voice EXCEPT
                          !.bot = j.bot,
                          !.connected = j.connected,
                          !.last = [cmd |-> "play", author |-> author,
                                    channel |-> None, sent |-> j.sent,
                                    ret |-> j.ret,
                                    player |-> IF IsNone(player) THEN None
                                               ELSE IF IsRaise(player) THEN player.exc
                                               ELSE "play_track"]]
           /\ players' = IF IsOk(player) THEN [players EXCEPT ![ctx.guild] = player.value]
                         ELSE players
    /\ UNCHANGED <<res, logs, finished, lookups, peer, sources, npFor, queue, pos, vc, tasks, loopTask, np, live, msgs, reqs, played, discs, lastTick, discPos>>

\* Member m goes to voice channel c, or leaves the voice channels (None).
MemberMoves(m, c) ==
    /\ voice.at[m] # c
    /\ voice' = [voice EXCEPT !.at[m] = c]
    /\ UNCHANGED <<res, logs, finished, players, lookups, peer, sources, npFor, queue, pos, vc, tasks, loopTask, np, live, msgs, reqs, played, discs, lastTick, discPos>>

\* The connection of the voice client breaks, or comes back.
VoiceConnection(up) ==
    /\ voice.bot # None
    /\ voice.connected # up
    /\ voice' = [voice EXCEPT !.connected = up]
    /\ UNCHANGED <<res, logs, finished, players, lookups, peer, sources, npFor, queue, pos, vc, tasks, loopTask, np, live, msgs, reqs, played, discs, lastTick, discPos>>

NextJoin ==
    \/ \E author \in Members, channel \in VoiceChannels \cup {None} : JoinCommand(author, channel)
    \/ \E author \in Members, g \in Guilds : PlayCommand(author, g)
    \/ \E m \in Members, c \in VoiceChannels \cup {None} : MemberMoves(m, c)
    \/ \E up \in BOOLEAN : VoiceConnection(up)

SpecJoin == Init /\ [][NextJoin]_vars

\* --------------------------------------------------------- logger.py
\* How many lookups in logs the model follows.
MaxLogLookups == 6

\* The name of the logger of guild g.
LogName(g) == IF g = "g1" THEN "Music-g1" ELSE "Music-g2"

\* _set_up_guild_logger(guild), that is set_up_logging(log_name, file_path),
\* on the loggers l: logging.getLogger(log_name) is given one more file
\* handler and one more stream handler.
SetUpGuildLogger(l, g) ==
    [l EXCEPT !.setups[g] = @ + 1, !.handlers[g] = @ + 2]

\* _GuildLoggers.__getitem__(guild): the logger is set up, stored and
\* returned.
GetItem(l, g) ==
    [SetUpGuildLogger(l, g) EXCEPT !.map[g] = LogName(g)]

\* logs[guild] is evaluated for guild g.
LogsLookup(g) ==
    /\ Len(logs.calls) < MaxLogLookups
    /\ LET l == GetItem(logs, g)
       IN  logs' = [l EXCEPT !.calls = Append(@, [guild |-> g,
                                                    known |-> logs.map[g] # None,
                                                    result |-> l.map[g]])]
    /\ UNCHANGED <<res, voice, finished, players, lookups, peer, sources, npFor, queue, pos, vc, tasks, loopTask, np, live, msgs, reqs, played, discs, lastTick, discPos>>

NextLogs == \E g \in Guilds : LogsLookup(g)

SpecLogs == Init /\ [][NextLogs]_vars

\* ------------------------------------------------------------ player.py
\* The queries and platform hints the play_track calls of the model draw
\* from: a free-text search on YouTube, and one on SoundCloud.
PlayQueries == {<<"w">>}
PlayHints == {YOUTUBE, SOUNDCLOUD}

Max(a, b) == IF a >= b THEN a ELSE b

\* _schedule_loop that creates a task whatever the state of the old one.
ScheduleLoopAlways(ts, lt) ==
    [tasks |-> Append(ts, NewTask), loopTask |-> Len(ts) + 1]

\* _schedule_loop: the tasks and _loop_task after the call.
ScheduleLoop(ts, lt) ==
    IF ts[lt].pc = "done"
    THEN [tasks |-> Append(ts, NewTask), loopTask |-> Len(ts) + 1]
    ELSE [tasks |-> ts, loopTask |-> lt]

\* _get_next_track that moves the position past the end of the queue.
GetNextTrackOvershoot(q, p) ==
    IF p < Len(q) THEN [track |-> Ok(q[p + 1]), pos |-> p + 1]
    ELSE [track |-> NoneValue, pos |-> p + 1]

\* _get_next_track that starts over when the queue is exhausted.
GetNextTrackWrap(q, p) ==
    IF p < Len(q) THEN [track |-> Ok(q[p + 1]), pos |-> p + 1]
    ELSE IF q # <<>> THEN [track |-> Ok(q[1]), pos |-> 1]
    ELSE [track |-> NoneValue, pos |-> p]

\* _get_next_track that steps the position back when the queue is
\* exhausted.
GetNextTrackAhead(q, p) ==
    IF p < Len(q) THEN [track |-> Ok(q[p + 1]), pos |-> p + 1]
    ELSE IF p = Len(q) /\ p > 0 THEN [track |-> NoneValue, pos |-> p - 1]
    ELSE [track |-> NoneValue, pos |-> p]

\* _get_next_track that leaves the position where it is.
GetNextTrackStuck(q, p) ==
    IF p < Len(q) THEN [track |-> Ok(q[p + 1]), pos |-> p]
    ELSE [track |-> NoneValue, pos |-> p]

\* _get_next_track: what it returns or raises, and _pos after the call.
GetNextTrack(q, p) ==
    IF ~(0 <= p /\ p <= Len(q)) THEN [track |-> Raise("InvariantError"), pos |-> p]
    ELSE IF p >= Len(q) THEN [track |-> NoneValue, pos |-> p]
    ELSE [track |-> Ok(q[p + 1]), pos |-> p + 1]

\* The test of _run_one_iteration, with is_paused() left out.
DeviceBusyPlayingOnly(v) == v = "playing"

\* self.vc.is_playing() or self.vc.is_paused()
DeviceBusy(v) == v \in {"playing", "paused"}

\* vc.play on a voice client in state v that plays nothing for the loop:
\* the state it is left in, or "raise" (ClientException when it is not
\* connected or is playing; ok: whether the source is accepted).
VcPlay(v, ok) ==
    IF v \in {"idle", "paused"} /\ ok THEN "playing" ELSE "raise"

\* The start of the finally block of run_player_loop in task t:
\* self._loop_task.cancel(), then _update_np_message(None), which either
\* finds no message (the coroutine ends: the task is done) or awaits the
\* delete of the message.
EnterFinally(ts, lt, t, npv) ==
    LET ts1 == [ts EXCEPT ![lt].cancel = (ts[lt].pc # "done")]
    IN  IF npv = 0 THEN [ts1 EXCEPT ![t] = [pc |-> "done", cancel |-> FALSE, track |-> 0, notFound |-> FALSE]]
        ELSE [ts1 EXCEPT ![t].pc = "cleanup", ![t].track = 0, ![t].notFound = FALSE]

\* _get_track that makes up a track when the resolver raises.
GetTrackAlways(r, result) ==
    [track |-> Ok([rid |-> r, platform |-> YOUTUBE]), out |-> "pending",
     exc |-> IF IsOk(result) THEN None ELSE result.exc]

\* _get_track, given what Track.from_query yielded for request r: the track
\* or None it returns (or the exception it lets through), the response it
\* sent ("notfound", "invalid"; "raised" and "pending": none), and the
\* exception of Track.from_query.
GetTrack(r, result) ==
    IF IsOk(result)
    THEN [track |-> Ok([rid |-> r, platform |-> result.value.platform]),
          out |-> "pending", exc |-> None]
    ELSE IF result.exc = "NotFoundError"
    THEN [track |-> NoneValue, out |-> "notfound", exc |-> result.exc]
    ELSE IF result.exc = "ValueError"
    THEN [track |-> NoneValue, out |-> "invalid", exc |-> result.exc]
    ELSE [track |-> result, out |-> "raised", exc |-> result.exc]

\* play_track that puts the track at the head of the queue.
PlayTrackTailFront(r, got) ==
    IF IsOk(got.track)
    THEN LET sl == ScheduleLoop(tasks, loopTask)
         IN  [queue |-> <<got.track.value>> \o queue, tasks |-> sl.tasks,
              loopTask |-> sl.loopTask, out |-> "queued", exc |-> got.exc]
    ELSE [queue |-> queue, tasks |-> tasks, loopTask |-> loopTask,
          out |-> got.out, exc |-> got.exc]

\* play_track, from the return of _get_track on: the queue, the tasks and
\* the response of request r ("queued" once the track is appended).
PlayTrackTail(r, got) ==
    IF IsOk(got.track)
    THEN LET sl == ScheduleLoop(tasks, loopTask)
         IN  [queue |-> Append(queue, got.track.value), tasks |-> sl.tasks,
              loopTask |-> sl.loopTask, out |-> "queued", exc |-> got.exc]
    ELSE [queue |-> queue, tasks |-> tasks, loopTask |-> loopTask,
          out |-> got.out, exc |-> got.exc]

\* play_track is called: Track.from_query raises at once, or the call
\* waits for the executor.
PlayTrack(q, hint) ==
    /\ Len(reqs) < MaxReq
    /\ LET r == Len(reqs) + 1
           d == FromQuery(q, hint)
       IN  IF d.kind = "dispatch"
           THEN /\ reqs' = Append(reqs, [func |-> d.func, out |-> "pending", exc |-> None])
                /\ UNCHANGED <<queue, tasks, loopTask>>
           ELSE LET end == PlayTrackTail(r, GetTrack(r, d))
                IN  /\ reqs' = Append(reqs, [func |-> None, out |-> end.out, exc |-> end.exc])
                    /\ queue' = end.queue
                    /\ tasks' = end.tasks
                    /\ loopTask' = end.loopTask
    /\ UNCHANGED <<res, voice, logs, finished, players, lookups, peer, sources, npFor, pos, vc, np, live, msgs, played, discs, lastTick, discPos>>

\* The executor has run the helper of request r: play_track resumes.
PlayTrackResume(r, sp, yt, sc) ==
    /\ r \in DOMAIN reqs
    /\ reqs[r].out = "pending"
    /\ LET end == PlayTrackTail(r, GetTrack(r, RunHelper(reqs[r].func, sp, yt, sc)))
       IN  /\ Len(end.tasks) <= MaxTasks
           /\ reqs' = [reqs EXCEPT ![r].out = end.out, ![r].exc = end.exc]
           /\ queue' = end.queue
           /\ tasks' = end.tasks
           /\ loopTask' = end.loopTask
    /\ UNCHANGED <<res, voice, logs, finished, players, lookups, peer, sources, npFor, pos, vc, np, live, msgs, played, discs, lastTick, discPos>>

\* Track.get_playable, the n-th call made on any track: an audio source of
\* its own for the stream of the track.
GetPlayable(track, n) == [kind |-> "AudioSource", rid |-> track.rid, serial |-> n]

\* The source argument of the vc.play call of _run_one_iteration: the
\* track itself.
PlayArgument(track) == [kind |-> "Track", rid |-> track.rid, serial |-> 0]

\* An event loop that is held while a resolution is under way.
BlockedWhilePending(rs) == \E r \in DOMAIN rs : rs[r].out = "pending"

\* Whether the event loop is held by the resolutions rs that are under
\* way: never, as from_query awaits loop.run_in_executor, the helper and
\* its remote calls running in a thread of the executor.
Blocked(rs) == FALSE

\* _run_one_iteration that takes the next track before it looks at the
\* voice client.
RunOneIterationTrackFirst(t, ok) ==
    /\ t \in TaskIds
    /\ tasks[t].pc = "sleep"
    /\ ~Blocked(reqs)
    /\ IF tasks[t].cancel \/ vc = "none"
       THEN \* CancelledError in the sleep, or InvariantError from self.vc
            /\ tasks' = EnterFinally(tasks, loopTask, t, np)
            /\ lastTick' = IF tasks[t].cancel THEN lastTick ELSE "raised"
            /\ pos' = IF tasks[t].cancel \/ IsRaise(GetNextTrack(queue, pos).track)
                      THEN pos ELSE GetNextTrack(queue, pos).pos
            /\ UNCHANGED <<vc, played, sources>>
       ELSE IF DeviceBusy(vc)
       THEN /\ lastTick' = "busy"
            /\ UNCHANGED <<pos, vc, played, sources, tasks>>
       ELSE LET n == GetNextTrack(queue, pos)
            IN  IF IsRaise(n.track)
                THEN /\ tasks' = EnterFinally(tasks, loopTask, t, np)
                     /\ lastTick' = "raised"
                     /\ UNCHANGED <<pos, vc, played, sources>>
                ELSE IF IsNone(n.track)
                THEN \* _update_np_message(None)
                     /\ tasks' = IF np = 0 THEN tasks
                                 ELSE [tasks EXCEPT ![t].pc = "exdel"]
                     /\ lastTick' = IF np = 0 THEN "cleared" ELSE lastTick
                     /\ pos' = n.pos
                     /\ UNCHANGED <<vc, played, sources>>
                ELSE /\ pos' = n.pos
                     /\ IF VcPlay(vc, ok) # "raise"
                        THEN \* vc.play, then _update_np_message(embed)
                             /\ vc' = VcPlay(vc, ok)
                             /\ played' = Append(played, n.track.value.rid)
                             /\ sources' = Append(sources, PlayArgument(n.track.value))
                             /\ tasks' = [tasks EXCEPT
                                            ![t].pc = IF np = 0 THEN "send" ELSE "del",
                                            ![t].track = n.track.value.rid]
                             /\ UNCHANGED lastTick
                        ELSE \* vc.play raises: not connected, or a bad source
                             /\ tasks' = EnterFinally(tasks, loopTask, t, np)
                             /\ lastTick' = "raised"
                             /\ UNCHANGED <<vc, played, sources>>
    /\ UNCHANGED <<res, voice, logs, finished, players, lookups, peer, npFor, queue, loopTask, np, live, msgs, reqs, discs, discPos>>

\* One call of _run_one_iteration by task t, up to its first await or its
\* return; ok: whether vc.play accepts the track.
RunOneIteration(t, ok) ==
    /\ t \in TaskIds
    /\ tasks[t].pc = "sleep"
    /\ ~Blocked(reqs)
    /\ IF tasks[t].cancel \/ vc = "none"
       THEN \* CancelledError in the sleep, or InvariantError from self.vc
            /\ tasks' = EnterFinally(tasks, loopTask, t, np)
            /\ lastTick' = IF tasks[t].cancel THEN lastTick ELSE "raised"
            /\ UNCHANGED <<pos, vc, played, sources>>
       ELSE IF DeviceBusy(vc)
       THEN /\ lastTick' = "busy"
            /\ UNCHANGED <<pos, vc, played, sources, tasks>>
       ELSE LET n == GetNextTrack(queue, pos)
            IN  IF IsRaise(n.track)
                THEN /\ tasks' = EnterFinally(tasks, loopTask, t, np)
                     /\ lastTick' = "raised"
                     /\ UNCHANGED <<pos, vc, played, sources>>
                ELSE IF IsNone(n.track)
                THEN \* _update_np_message(None)
                     /\ tasks' = IF np = 0 THEN tasks
                                 ELSE [tasks EXCEPT ![t].pc = "exdel"]
                     /\ lastTick' = IF np = 0 THEN "cleared" ELSE lastTick
                     /\ pos' = n.pos
                     /\ UNCHANGED <<vc, played, sources>>
                ELSE /\ pos' = n.pos
                     /\ IF VcPlay(vc, ok) # "raise"
                        THEN \* vc.play, then _update_np_message(embed)
                             /\ vc' = VcPlay(vc, ok)
                             /\ played' = Append(played, n.track.value.rid)
                             /\ sources' = Append(sources, PlayArgument(n.track.value))
                             /\ tasks' = [tasks EXCEPT
                                            ![t].pc = IF np = 0 THEN "send" ELSE "del",
                                            ![t].track = n.track.value.rid]
                             /\ UNCHANGED lastTick
                        ELSE \* vc.play raises: not connected, or a bad source
                             /\ tasks' = EnterFinally(tasks, loopTask, t, np)
                             /\ lastTick' = "raised"
                             /\ UNCHANGED <<vc, played, sources>>
    /\ UNCHANGED <<res, voice, logs, finished, players, lookups, peer, npFor, queue, loopTask, np, live, msgs, reqs, discs, discPos>>

\* _update_np_message(embed) that lets discord.NotFound through.
NpDeletedRaises(t) ==
    /\ t \in TaskIds
    /\ tasks[t].pc = "del"
    /\ IF tasks[t].cancel \/ np \notin live
       THEN /\ tasks' = EnterFinally(tasks, loopTask, t, np)
            /\ UNCHANGED live
       ELSE /\ live' = live \ {np}
            /\ tasks' = [tasks EXCEPT ![t].pc = "send"]
    /\ UNCHANGED <<res, voice, logs, finished, players, lookups, peer, sources, npFor, queue, pos, vc, loopTask, np, msgs, reqs, played, discs, lastTick, discPos>>

\* _update_np_message(embed) that sends the new message without deleting
\* the old one.
NpDeletedSkip(t) ==
    /\ t \in TaskIds
    /\ tasks[t].pc = "del"
    /\ tasks' = [tasks EXCEPT ![t].pc = "send"]
    /\ UNCHANGED <<res, voice, logs, finished, players, lookups, peer, sources, npFor, queue, pos, vc, loopTask, np, live, msgs, reqs, played, discs, lastTick, discPos>>

\* _update_np_message(embed) in task t: the delete of the old message is
\* over (discord.NotFound is passed over); the new message is being sent.
NpDeleted(t) ==
    /\ t \in TaskIds
    /\ tasks[t].pc = "del"
    /\ IF tasks[t].cancel
       THEN /\ tasks' = EnterFinally(tasks, loopTask, t, np)
            /\ UNCHANGED live
       ELSE /\ live' = live \ {np}
            /\ tasks' = [tasks EXCEPT ![t].pc = "send",
                                      ![t].notFound = (np \notin live)]
    /\ UNCHANGED <<res, voice, logs, finished, players, lookups, peer, sources, npFor, queue, pos, vc, loopTask, np, msgs, reqs, played, discs, lastTick, discPos>>

\* _update_np_message(embed) that shows the track at the head of the queue.
NpSentHead(t) ==
    /\ t \in TaskIds
    /\ tasks[t].pc = "send"
    /\ msgs' = msgs + 1
    /\ live' = live \cup {msgs + 1}
    /\ np' = msgs + 1
    /\ npFor' = Append(npFor, queue[1].rid)
    /\ tasks' = IF vc = "none"
                THEN EnterFinally(tasks, loopTask, t, msgs + 1)
                ELSE [tasks EXCEPT ![t].pc = "sleep", ![t].track = 0,
                                         ![t].notFound = FALSE]
    /\ lastTick' = IF vc = "none" THEN "raised" ELSE "played"
    /\ UNCHANGED <<res, voice, logs, finished, players, lookups, peer, sources, queue, pos, vc, loopTask, reqs, played, discs, discPos>>

\* _update_np_message(embed) in task t: the new message is sent and saved;
\* _run_one_iteration then logs self.vc.channel and returns.
NpSent(t) ==
    /\ t \in TaskIds
    /\ tasks[t].pc = "send"
    /\ IF tasks[t].cancel
       THEN /\ tasks' = EnterFinally(tasks, loopTask, t, np)
            /\ UNCHANGED <<np, live, msgs, lastTick, npFor>>
       ELSE /\ msgs' = msgs + 1
            /\ live' = live \cup {msgs + 1}
            /\ np' = msgs + 1
            /\ npFor' = Append(npFor, tasks[t].track)
            /\ tasks' = IF vc = "none"
                        THEN EnterFinally(tasks, loopTask, t, msgs + 1)
                        ELSE [tasks EXCEPT ![t].pc = "sleep", ![t].track = 0,
                                                 ![t].notFound = FALSE]
            /\ lastTick' = IF vc = "none" THEN "raised" ELSE "played"
    /\ UNCHANGED <<res, voice, logs, finished, players, lookups, peer, sources, queue, pos, vc, loopTask, reqs, played, discs, discPos>>

\* The end of an iteration on an exhausted queue that ends the loop as well.
NpClearedEnds(t) ==
    /\ t \in TaskIds
    /\ tasks[t].pc = "exdel"
    /\ live' = live \ {np}
    /\ np' = 0
    /\ tasks' = [tasks EXCEPT ![t] = [pc |-> "done", cancel |-> FALSE, track |-> 0, notFound |-> FALSE]]
    /\ lastTick' = "cleared"
    /\ UNCHANGED <<res, voice, logs, finished, players, lookups, peer, sources, npFor, queue, pos, vc, loopTask, msgs, reqs, played, discs, discPos>>

\* _update_np_message(None) in task t, the queue being exhausted: the
\* delete is over and the reference is dropped.
NpCleared(t) ==
    /\ t \in TaskIds
    /\ tasks[t].pc = "exdel"
    /\ IF tasks[t].cancel
       THEN /\ tasks' = EnterFinally(tasks, loopTask, t, np)
            /\ UNCHANGED <<np, live, lastTick>>
       ELSE /\ live' = live \ {np}
            /\ np' = 0
            /\ tasks' = [tasks EXCEPT ![t].pc = "sleep"]
            /\ lastTick' = "cleared"
    /\ UNCHANGED <<res, voice, logs, finished, players, lookups, peer, sources, npFor, queue, pos, vc, loopTask, msgs, reqs, played, discs, discPos>>

\* The end of the finally block in task t.  A task that cancelled itself
\* gets CancelledError at the await of the delete: the request may or may
\* not have reached the channel (reached), and the reference is kept.
LoopCleanup(t, reached) ==
    /\ t \in TaskIds
    /\ tasks[t].pc = "cleanup"
    /\ IF tasks[t].cancel
       THEN /\ live' = IF reached THEN live \ {np} ELSE live
            /\ np' = np
       ELSE /\ live' = live \ {np}
            /\ np' = 0
    /\ tasks' = [tasks EXCEPT ![t] = [pc |-> "done", cancel |-> FALSE, track |-> 0, notFound |-> FALSE]]
    /\ UNCHANGED <<res, voice, logs, finished, players, lookups, peer, sources, npFor, queue, pos, vc, loopTask, msgs, reqs, played, discs, lastTick, discPos>>

\* disconnect_player that cancels the loop task as well.
DisconnectPlayerCancels ==
    /\ discs < MaxDisc
    /\ discs' = discs + 1
    /\ pos' = IF pos > 0 THEN pos - 1 ELSE pos
    /\ vc' = IF vc \in {"idle", "playing", "paused"} THEN "closing" ELSE vc
    /\ discPos' = IF vc \in {"playing", "paused"} THEN pos ELSE -1
    /\ tasks' = [tasks EXCEPT ![loopTask].cancel = (tasks[loopTask].pc # "done")]
    /\ UNCHANGED <<res, voice, logs, finished, players, lookups, peer, sources, npFor, queue, loopTask, np, live, msgs, reqs, played, lastTick>>

\* disconnect_player, up to the await in vc.disconnect(), which stops the
\* audio and marks the client as not connected.
DisconnectPlayer ==
    /\ discs < MaxDisc
    /\ discs' = discs + 1
    /\ pos' = IF pos > 0 THEN pos - 1 ELSE pos
    /\ vc' = IF vc \in {"idle", "playing", "paused"} THEN "closing" ELSE vc
    /\ discPos' = IF vc \in {"playing", "paused"} THEN pos ELSE -1
    /\ UNCHANGED <<res, voice, logs, finished, players, lookups, peer, sources, npFor, queue, tasks, loopTask, np, live, msgs, reqs, played, lastTick>>

\* vc.disconnect() is over: the guild has no voice client any more.
Disconnected ==
    /\ vc = "closing"
    /\ vc' = "none"
    /\ UNCHANGED <<res, voice, logs, finished, players, lookups, peer, sources, npFor, queue, pos, tasks, loopTask, np, live, msgs, reqs, played, discs, lastTick, discPos>>

\* The bot connects to a voice channel (channel.connect in _join_channel).
Connect ==
    /\ vc = "none"
    /\ vc' = "idle"
    /\ discPos' = -1
    /\ UNCHANGED <<res, voice, logs, finished, players, lookups, peer, sources, npFor, queue, pos, tasks, loopTask, np, live, msgs, reqs, played, discs, lastTick>>

\* after_connect
AfterConnect ==
    /\ LET sl == ScheduleLoop(tasks, loopTask)
       IN  /\ Len(sl.tasks) <= MaxTasks
           /\ tasks' = sl.tasks
           /\ loopTask' = sl.loopTask
    /\ UNCHANGED <<res, voice, logs, finished, players, lookups, peer, sources, npFor, queue, pos, vc, np, live, msgs, reqs, played, discs, lastTick, discPos>>

\* The voice client is done with the track it plays.
TrackFinished ==
    /\ vc = "playing"
    /\ vc' = "idle"
    /\ UNCHANGED <<res, voice, logs, finished, players, lookups, peer, sources, npFor, queue, pos, tasks, loopTask, np, live, msgs, reqs, played, discs, lastTick, discPos>>

\* The pause command that resumes audio that is paused.
PauseCommandToggle(v) ==
    IF v = "none" THEN [vc |-> v, reply |-> "error"]
    ELSE [vc |-> IF v = "playing" THEN "paused"
                 ELSE IF v = "paused" THEN "playing" ELSE v,
          reply |-> "paused"]

\* The pause command on a guild whose voice client is v: without a voice
\* client it only answers with the error; else vc.pause(), which acts on
\* audio that is playing, and the answer "Player paused.".
PauseCommand(v) ==
    IF v = "none" THEN [vc |-> v, reply |-> "error"]
    ELSE [vc |-> IF v = "playing" THEN "paused" ELSE v, reply |-> "paused"]

\* The resume command: without a voice client it only answers with the
\* error; else vc.resume(), which acts on audio that is paused, and the
\* answer "Player resumed.".
ResumeCommand(v) ==
    IF v = "none" THEN [vc |-> v, reply |-> "error"]
    ELSE [vc |-> IF v = "paused" THEN "playing" ELSE v, reply |-> "resumed"]

\* The pause command is invoked.
Pause ==
    /\ vc' = PauseCommand(vc).vc
    /\ UNCHANGED <<res, voice, logs, finished, players, lookups, peer, sources, npFor, queue, pos, tasks, loopTask, np, live, msgs, reqs, played, discs, lastTick, discPos>>

\* The resume command is invoked.
Resume ==
    /\ vc' = ResumeCommand(vc).vc
    /\ UNCHANGED <<res, voice, logs, finished, players, lookups, peer, sources, npFor, queue, pos, tasks, loopTask, np, live, msgs, reqs, played, discs, lastTick, discPos>>

\* The skip command: without a voice client it only answers; else
\* vc.stop(), which ends audio that is playing or paused.
Skip ==
    /\ vc' = IF vc \in {"playing", "paused"} THEN "idle" ELSE vc
    /\ UNCHANGED <<res, voice, logs, finished, players, lookups, peer, sources, npFor, queue, pos, tasks, loopTask, np, live, msgs, reqs, played, discs, lastTick, discPos>>

\* Somebody else deletes the "Now playing" message m.
MessageDeleted(m) ==
    /\ m \in live
    /\ live' = live \ {m}
    /\ UNCHANGED <<res, voice, logs, finished, players, lookups, peer, sources, npFor, queue, pos, vc, tasks, loopTask, np, msgs, reqs, played, discs, lastTick, discPos>>

LoopStep ==
    \/ \E t \in TaskIds, ok \in BOOLEAN : RunOneIteration(t, ok)
    \/ \E t \in TaskIds : NpDeleted(t)
    \/ \E t \in TaskIds : NpSent(t)
    \/ \E t \in TaskIds : NpCleared(t)
    \/ \E t \in TaskIds, reached \in BOOLEAN : LoopCleanup(t, reached)

Next ==
    \/ \E q \in PlayQueries, hint \in PlayHints : PlayTrack(q, hint)
    \/ \E r \in 1..MaxReq, yt \in YtAnswers : PlayTrackResume(r, "track", yt, "track")
    \/ LoopStep
    \/ DisconnectPlayer
    \/ Disconnected
    \/ Connect
    \/ AfterConnect
    \/ TrackFinished
    \/ Pause
    \/ Resume
    \/ Skip
    \/ \E m \in live : MessageDeleted(m)

Spec == Init /\ [][Next]_vars

\* ------------------------------------------------- the other guild
\* The variables of the player and the cog other than peer.
guildVars == <<res, voice, logs, finished, players, lookups, sources, npFor, queue, pos, vc, tasks, loopTask, np, live, msgs, reqs, played, discs, lastTick, discPos>>

\* play_track on the Player of the other guild, its resolution having
\* succeeded, that appends to the queue of this guild as well.
PeerPlayTrackShared ==
    /\ ~Blocked(reqs)
    /\ Len(peer.queue) < MaxPeerReq
    /\ Len(queue) < MaxReq
    /\ LET track == [rid |-> Len(peer.queue) + 1, platform |-> YOUTUBE]
       IN  /\ peer' = [peer EXCEPT !.queue = Append(@, track),
                                   !.loop = IF @ = "done" THEN "sleep" ELSE @]
           /\ queue' = Append(queue, track)
    /\ UNCHANGED <<res, voice, logs, finished, players, lookups, sources, npFor, pos, vc, tasks, loopTask, np, live, msgs, reqs, played, discs, lastTick, discPos>>

\* play_track on the Player of the other guild, its resolution having
\* succeeded: the append to its _queue and _schedule_loop.
PeerPlayTrack ==
    /\ ~Blocked(reqs)
    /\ Len(peer.queue) < MaxPeerReq
    /\ LET track == [rid |-> Len(peer.queue) + 1, platform |-> YOUTUBE]
       IN  peer' = [peer EXCEPT !.queue = Append(@, track),
                               !.loop = IF @ = "done" THEN "sleep" ELSE @]
    /\ UNCHANGED guildVars

\* One iteration of the loop of the Player of the other guild, from its
\* start to its end (its voice client accepting every track): InvariantError
\* without a voice client ends the loop (the reference to the message
\* being kept); else nothing while the client is busy, or the next track is
\* started and its message sent, or the message is cleared.
PeerTick ==
    /\ ~Blocked(reqs)
    /\ peer.loop = "sleep"
    /\ IF peer.vc = "none" THEN peer' = [peer EXCEPT !.loop = "done"]
       ELSE IF DeviceBusy(peer.vc) THEN peer' = peer
       ELSE LET n == GetNextTrack(peer.queue, peer.pos)
            IN  IF IsOk(n.track)
                THEN peer' = [peer EXCEPT !.pos = n.pos, !.vc = "playing", !.np = 1]
                ELSE peer' = [peer EXCEPT !.np = 0]
    /\ UNCHANGED guildVars

\* The voice client of the other guild is done with the track it plays.
PeerTrackFinished ==
    /\ peer.vc = "playing"
    /\ peer' = [peer EXCEPT !.vc = "idle"]
    /\ UNCHANGED guildVars

\* disconnect_player on the Player of the other guild, from its start to
\* the release of the voice client.
PeerDisconnect ==
    /\ peer.vc # "none"
    /\ peer' = [peer EXCEPT !.pos = IF @ > 0 THEN @ - 1 ELSE @, !.vc = "none"]
    /\ UNCHANGED guildVars

\* The bot connects to a voice channel of the other guild, and
\* after_connect runs on its Player.
PeerConnect ==
    /\ peer.vc = "none"
    /\ peer' = [peer EXCEPT !.vc = "idle",
                            !.loop = IF @ = "done" THEN "sleep" ELSE @]
    /\ UNCHANGED guildVars

PeerStep ==
    \/ PeerPlayTrack
    \/ PeerTick
    \/ PeerTrackFinished
    \/ PeerDisconnect
    \/ PeerConnect

\* The steps of the loop tasks of this guild, the voice client accepting
\* every track.
LoopStepGuild ==
    \/ \E t \in TaskIds : RunOneIteration(t, TRUE)
    \/ \E t \in TaskIds : NpDeleted(t)
    \/ \E t \in TaskIds : NpSent(t)
    \/ \E t \in TaskIds : NpCleared(t)
    \/ \E t \in TaskIds, reached \in BOOLEAN : LoopCleanup(t, reached)

\* Two guilds: the operations on the Player of this guild (play_track, the
\* loop up to its end, disconnect_player), and those on the Player of the
\* other (play_track, the loop, disconnect and reconnect).
NextGuilds ==
    \/ \E q \in PlayQueries, hint \in PlayHints : PlayTrack(q, hint)
    \/ \E r \in 1..MaxReq : PlayTrackResume(r, "track", "video", "track")
    \/ LoopStepGuild
    \/ DisconnectPlayer
    \/ Disconnected
    \/ TrackFinished
    \/ PeerStep

SpecGuilds == Init /\ [][NextGuilds]_vars

\* The voice client is done with the track it plays, and the track is
\* noted as played to its end.
TrackPlayedOut ==
    /\ vc = "playing"
    /\ vc' = "idle"
    /\ finished' = finished \cup {played[Len(played)]}
    /\ UNCHANGED <<res, voice, logs, players, lookups, peer, sources, npFor, queue, pos, tasks, loopTask, np, live, msgs, reqs, played, discs, lastTick, discPos>>

\* Enqueue, tick, disconnect and reconnect: the voice client accepts every
\* track and plays it to its end unless it is disconnected before.
NextReplay ==
    \/ \E q \in PlayQueries, hint \in PlayHints : PlayTrack(q, hint)
    \/ \E r \in 1..MaxReq : PlayTrackResume(r, "track", "video", "track")
    \/ LoopStepGuild
    \/ DisconnectPlayer
    \/ Disconnected
    \/ Connect
    \/ AfterConnect
    \/ TrackPlayedOut

SpecReplay == Init /\ [][NextReplay]_vars

\* The autoplay scenario: the player has a voice client from the start and
\* keeps it, the voice client accepts every track, and nobody pauses.
LoopStepAuto ==
    \/ \E t \in TaskIds : RunOneIteration(t, TRUE)
    \/ \E t \in TaskIds : NpDeleted(t)
    \/ \E t \in TaskIds : NpSent(t)
    \/ \E t \in TaskIds : NpCleared(t)

NextAuto ==
    \/ \E q \in PlayQueries, hint \in PlayHints : PlayTrack(q, hint)
    \/ \E r \in 1..MaxReq, yt \in YtAnswers : PlayTrackResume(r, "track", yt, "track")
    \/ LoopStepAuto
    \/ TrackFinished
    \/ \E m \in live : MessageDeleted(m)

\* The event loop runs every task that is ready: a loop task that can take
\* a step takes it.
InitAuto == Init /\ vc = "idle"

SpecAuto == InitAuto /\ [][NextAuto]_vars /\ WF_vars(LoopStepAuto)

\* The autoplay scenario in which, besides, the voice client gets to the
\* end of every track that it plays.
SpecDrain ==
    InitAuto /\ [][NextAuto]_vars /\ WF_vars(LoopStepAuto) /\ WF_vars(TrackFinished)

\* ------------------------------------------------------------ the claims
\* C1: in every state of the player, 0 <= pos <= len(queue), so that the
\* range check of _get_next_track does not raise InvariantError.
C1_PosInRange ==
    /\ 0 <= pos
    /\ pos <= Len(queue)
    /\ ~IsRaise(GetNextTrack(queue, pos).track)

\* C1: every request is queued and played, and the player went through a
\* disconnect and a second loop task.
C1_Witness ==
    /\ Len(queue) = MaxReq
    /\ pos = Len(queue)
    /\ Len(played) >= MaxReq
    /\ discs >= 1
    /\ Len(tasks) >= 2

\* C2: an iteration of the loop that finds the voice client playing or
\* paused plays nothing and leaves pos, the queue and the message as they
\* are; the voice client is told to play only while it neither plays nor is
\* paused.
C2_NoPlayWhileBusy ==
    [][ /\ \A t \in TaskIds, ok \in BOOLEAN :
             (vc \in {"playing", "paused"} /\ ~tasks[t].cancel /\ RunOneIteration(t, ok))
                => UNCHANGED <<pos, queue, np, live, vc, played>>
        /\ played' # played => vc \notin {"playing", "paused"} ]_vars

\* C2: the voice client is paused, a track waits in the queue and the loop
\* is about to run an iteration.
C2_Witness ==
    /\ vc = "paused"
    /\ pos < Len(queue)
    /\ played # <<>>
    /\ tasks[loopTask].pc = "sleep"

C4_ResumePosition ==
    (discPos # -1 /\ vc = "none") => pos = Max(discPos - 1, 0)

\* C5: an input that matches the URL pattern of a platform is handed to a
\* helper of that platform, and a track that results is of that platform,
\* whatever the platform hint.
C5_UrlOverridesHint ==
    res.stage # "idle" =>
        LET s == RStrip(LStrip(res.query))
        IN  /\ youtube_pattern(s) =>
                 /\ res.func = "make_youtube_track"
                 /\ IsOk(res.result) => res.result.value.platform = YOUTUBE
            /\ spotify_pattern(s) =>
                 /\ res.func = "make_spotify_track_from_url"
                 /\ IsOk(res.result) => res.result.value.platform = SPOTIFY
            /\ soundcloud_pattern(s) =>
                 /\ res.func = "make_soundcloud_track_from_url"
                 /\ IsOk(res.result) => res.result.value.platform = SOUNDCLOUD

\* C5: a Spotify URL in brackets was resolved to a Spotify track although
\* the hint was SoundCloud.
C5_Witness ==
    /\ res.stage = "done"
    /\ res.query = <<"<", "sp", ">">>
    /\ res.hint = SOUNDCLOUD
    /\ IsOk(res.result)
    /\ res.result.value.platform = SPOTIFY

\* C6: a string that is no recognized URL, with the SoundCloud hint, makes
\* from_query raise ValueError at once: nothing goes to the executor and no
\* remote call is made.
C6_SoundcloudSearchRejected ==
    LET s == RStrip(LStrip(res.query))
    IN  ( /\ res.stage # "idle"
          /\ res.hint = SOUNDCLOUD
          /\ ~youtube_pattern(s) /\ ~spotify_pattern(s) /\ ~soundcloud_pattern(s) )
        => /\ res.stage = "done"
           /\ res.result = Raise("ValueError")
           /\ ~res.executor
           /\ res.calls = <<>>

\* C6: a free-text query with the SoundCloud hint was rejected.
C6_Witness ==
    /\ res.stage = "done"
    /\ res.query = <<"w">>
    /\ res.hint = SOUNDCLOUD
    /\ res.result = Raise("ValueError")

\* C7: when the Spotify search or lookup finds a track and the YouTube
\* search by title and artist finds nothing, the resolution fails with
\* NotFoundError.
C7_NoStreamIsNotFound ==
    ( /\ res.stage = "done"
      /\ res.func \in {"make_spotify_track_from_search", "make_spotify_track_from_url"}
      /\ res.sp = "track"
      /\ res.yt \in YtNoResult )
    => res.result = Raise("NotFoundError")

\* C8 as stated: once an iteration of the loop that started with
\* pos = len(queue) is over, there is no "Now playing" message (and that
\* iteration did not make the voice client play).
C8_ExhaustedTickClears ==
    (pos = Len(queue) /\ lastTick \in {"busy", "cleared", "raised"} /\ tasks[loopTask].pc = "sleep")
        => (np = 0 /\ live = {})

\* C8 as amended: an iteration of the loop that starts with pos = len(queue)
\* and finds a voice client that neither plays nor is paused clears the
\* "Now playing" message: it does nothing to the voice client, leaves pos,
\* and if there is a message it awaits its delete, after which the message
\* is gone and the reference is None.
C8_IdleExhaustedTickClears ==
    [][ /\ \A t \in TaskIds, ok \in BOOLEAN :
             ( /\ pos = Len(queue)
               /\ vc \in {"idle", "closing"}
               /\ ~tasks[t].cancel
               /\ RunOneIteration(t, ok) )
             => /\ vc' = vc
                /\ played' = played
                /\ pos' = pos
                /\ np' = np
                /\ tasks'[t].pc = IF np = 0 THEN "sleep" ELSE "exdel"
        /\ \A t \in TaskIds :
             (tasks[t].pc = "exdel" /\ tasks'[t].pc # "exdel")
             => /\ np' = 0
                /\ np \notin live'
                /\ vc' = vc
                /\ played' = played
                /\ pos' = pos ]_vars

\* C8: the queue is exhausted, the voice client is idle, and the message
\* that was sent for a track has been cleared by the loop.
C8_Witness ==
    /\ queue # <<>>
    /\ pos = Len(queue)
    /\ vc = "idle"
    /\ msgs >= 1
    /\ np = 0
    /\ live = {}
    /\ tasks[loopTask].pc = "sleep"

\* C9: at most one loop task is not done, and it is _loop_task; _loop_task
\* is left alone while it is not done, and a task is created only when
\* _loop_task is done, and then becomes _loop_task.
C9_OneLoopTask ==
    /\ [](Cardinality(Active(tasks)) <= 1 /\ Active(tasks) \subseteq {loopTask})
    /\ [][ /\ tasks[loopTask].pc # "done"
              => (loopTask' = loopTask /\ Len(tasks') = Len(tasks))
           /\ Len(tasks') # Len(tasks)
              => /\ tasks[loopTask].pc = "done"
                 /\ Len(tasks') = Len(tasks) + 1
                 /\ loopTask' = Len(tasks')
                 /\ tasks'[loopTask'].pc = "sleep" ]_vars

\* C9: a second loop task runs after the first one ended, and both tracks
\* were queued.
C9_Witness ==
    /\ Len(tasks) >= 2
    /\ tasks[1].pc = "done"
    /\ tasks[loopTask].pc \notin {"done", "cleanup"}
    /\ Len(queue) = 2

\* C10: a play_track call whose resolution raises NotFoundError or
\* ValueError sends the matching error response and leaves the queue, pos
\* and the loop task as they are; a track is in the queue only for a call
\* that was answered "queued".
C10_FailedResolutionEnqueuesNothing ==
    /\ [][ \A r \in 1..MaxReq :
             ( /\ r \in DOMAIN reqs'
               /\ reqs'[r].exc \in {"NotFoundError", "ValueError"}
               /\ (r \in DOMAIN reqs => reqs[r].exc = None) )
             => /\ reqs'[r].out = IF reqs'[r].exc = "ValueError" THEN "invalid"
                                  ELSE "notfound"
                /\ UNCHANGED <<queue, pos, tasks, loopTask>> ]_vars
    /\ [](\A r \in DOMAIN reqs :
             (\E i \in DOMAIN queue : queue[i].rid = r)
                => (reqs[r].out = "queued" /\ reqs[r].exc = None))

\* C10: one call failed with NotFoundError and another with ValueError.
C10_Witness ==
    /\ \E r \in DOMAIN reqs : reqs[r].out = "notfound" /\ reqs[r].exc = "NotFoundError"
    /\ \E r \in DOMAIN reqs : reqs[r].out = "invalid" /\ reqs[r].exc = "ValueError"
    /\ queue = <<>>

\* C11: the tracks of the play_track calls are in the queue in the order
\* in which the calls were made, however long each resolution takes.
C11_SubmissionOrder ==
    \A i, j \in DOMAIN queue : i < j => queue[i].rid < queue[j].rid

\* C12: at most one "Now playing" message of the player exists at any time,
\* and it is the one the player refers to; a new one is sent only once the
\* previous one is gone, and _update_np_message(None) (queue exhausted, or
\* the end of the loop) sends nothing and only removes.
C12_OneNotification ==
    /\ [](Cardinality(live) <= 1 /\ live \subseteq {np})
    /\ [][ msgs' # msgs => (live = {} /\ live' = {msgs'} /\ np' = msgs') ]_vars
    /\ [][ \A t \in TaskIds :
              (tasks[t].pc \in {"exdel", "cleanup"} /\ tasks'[t].pc # tasks[t].pc)
                 => (msgs' = msgs /\ live' \subseteq live /\ np' \in {0, np}) ]_vars

\* C12: the message of the second track replaced the message of the first.
C12_Witness ==
    /\ msgs = 2
    /\ np = 2
    /\ live = {2}
    /\ Len(played) = 2

\* C13: every get_player call yields a Player; calls for the same guild
\* yield the same Player, which is the one registered for the guild, and
\* an entry of the registry, once made, stays as it is.
C13_OnePlayerPerGuild ==
    /\ \A i \in DOMAIN lookups :
          /\ IsOk(lookups[i].result)
          /\ players[lookups[i].guild] # None
          /\ lookups[i].result.value.guild = lookups[i].guild
    /\ \A i, j \in DOMAIN lookups :
          lookups[i].guild = lookups[j].guild
             => lookups[i].result = lookups[j].result

\* C14: the Player that a get_player call yields sends its messages to the
\* channel of that call: of the call that created it, and after that of the
\* most recent call for its guild.
C14_DestinationFollowsRequest ==
    \A i \in DOMAIN lookups :
        (\A j \in DOMAIN lookups : j > i => lookups[j].guild # lookups[i].guild)
           => /\ players[lookups[i].guild] # None
              /\ players[lookups[i].guild].text_channel = lookups[i].channel

\* C15: the queue changes only when a play_track call whose resolution
\* succeeded appends its track at the tail, and pos is the same after it;
\* no step of the player removes or reorders the entries of the queue.
C15_EnqueueAppends ==
    /\ [][ queue' # queue =>
              /\ \E r \in DOMAIN reqs :
                    /\ reqs[r].out = "pending"
                    /\ reqs'[r].out = "queued"
                    /\ \E yt \in YtAnswers :
                          LET result == RunHelper(reqs[r].func, "track", yt, "track")
                          IN  /\ IsOk(result)
                              /\ queue' = Append(queue, [rid |-> r,
                                                         platform |-> result.value.platform])
              /\ pos' = pos ]_vars
    /\ [][ Len(queue') >= Len(queue) /\ SubSeq(queue', 1, Len(queue)) = queue ]_vars

\* C15: a second track was appended while the position was 1, and the
\* player went through iterations, a disconnect and a second loop task.
C15_Witness ==
    /\ Len(queue) = 2
    /\ pos = 1
    /\ Len(played) >= 2
    /\ discs >= 1
    /\ Len(tasks) >= 2

\* C16: on every state the voice client can be in, pause after pause
\* leaves it as one pause does, and resume after resume as one resume;
\* without a voice client both only answer with the error; a step that
\* pauses or resumes the audio leaves the queue and pos as they are.
C16_PauseResumeIdempotent ==
    /\ [] /\ PauseCommand(PauseCommand(vc).vc).vc = PauseCommand(vc).vc
          /\ ResumeCommand(ResumeCommand(vc).vc).vc = ResumeCommand(vc).vc
          /\ vc = "none" => /\ PauseCommand(vc) = [vc |-> "none", reply |-> "error"]
                            /\ ResumeCommand(vc) = [vc |-> "none", reply |-> "error"]
    /\ [][ ((vc = "playing" /\ vc' = "paused") \/ (vc = "paused" /\ vc' = "playing"))
              => (vc' \in {PauseCommand(vc).vc, ResumeCommand(vc).vc}
                  /\ UNCHANGED <<queue, pos, tasks, loopTask, np, live, played>>) ]_vars

\* C16: the last track of the queue is paused.
C16_Witness ==
    /\ vc = "paused"
    /\ Len(queue) = 2
    /\ pos = Len(queue)
    /\ Len(played) = 2

C18_LoopRelaunched ==
    [][ ((queue' # queue \/ AfterConnect) /\ vc' \in {"idle", "playing", "paused"})
          => tasks'[loopTask'].pc \notin {"done", "cleanup"} ]_vars

\* C19: once the loop has ended (its task is done), the player refers to
\* no "Now playing" message and none of its messages exists.
C19_TerminationClears ==
    tasks[loopTask].pc = "done" => (np = 0 /\ live = {})

\* C20 as stated: once an iteration of the loop has found the queue
\* exhausted and cleared the message, and nothing was appended since, the
\* loop task is done.
C20_ExhaustedTickEndsLoop ==
    (lastTick = "cleared" /\ pos = Len(queue)) => tasks[loopTask].pc = "done"

\* C20 as amended: an iteration of the loop that finds the queue exhausted
\* (on a voice client that neither plays nor is paused) clears the message
\* and returns to the loop: its task is not done and not in the finally
\* block, it is still _loop_task, no task is created, and after the delete
\* of the message it sleeps until the next iteration.
C20_ExhaustedTickKeepsLoop ==
    [][ /\ \A t \in TaskIds, ok \in BOOLEAN :
             ( /\ pos = Len(queue)
               /\ vc \in {"idle", "closing"}
               /\ ~tasks[t].cancel
               /\ RunOneIteration(t, ok) )
             => /\ tasks'[t].pc \in {"sleep", "exdel"}
                /\ loopTask' = loopTask
                /\ Len(tasks') = Len(tasks)
        /\ \A t \in TaskIds :
             (tasks[t].pc = "exdel" /\ tasks'[t].pc # "exdel" /\ ~tasks[t].cancel)
             => /\ tasks'[t].pc = "sleep"
                /\ t = loopTask'
                /\ Len(tasks') = Len(tasks) ]_vars

\* C20: the one loop task played both tracks, found the queue exhausted,
\* cleared the message of the last track, and sleeps until its next
\* iteration.
C20_Witness ==
    /\ lastTick = "cleared"
    /\ Len(tasks) = 1
    /\ tasks[1].pc = "sleep"
    /\ Len(played) = 2
    /\ pos = 2
    /\ msgs = 2
    /\ np = 0

\* C21: a disconnect_player call made while the guild has no voice client
\* leaves pos and the queue as they were before the call.
C21_DisconnectWithoutClient ==
    [][ (vc = "none" /\ DisconnectPlayer) => UNCHANGED <<pos, queue>> ]_vars

\* C22: a cancellation is requested for a loop task only by that task, as
\* it enters its finally block: a task that sleeps or is in the middle of
\* an iteration never has one pending.  A task leaves the loop only by a
\* step of its own, never by play_track, disconnect_player, after_connect
\* or get_player.  An iteration that finds the guild without a voice
\* client ends the loop and plays nothing.
C22_OnlyLoopEndsItself ==
    /\ [](\A t \in TaskIds : tasks[t].cancel => tasks[t].pc = "cleanup")
    /\ [][ \A t \in TaskIds :
              (tasks[t].pc \notin {"cleanup", "done"} /\ tasks'[t].pc \in {"cleanup", "done"})
                 => /\ \/ \E ok \in BOOLEAN : RunOneIteration(t, ok)
                       \/ NpDeleted(t) \/ NpSent(t) \/ NpCleared(t)
                    /\ played' = played
                    /\ lastTick' = "raised" ]_vars
    /\ [][ \A t \in TaskIds, ok \in BOOLEAN :
              (vc = "none" /\ RunOneIteration(t, ok))
                 => /\ tasks'[t].pc \in {"cleanup", "done"}
                    /\ UNCHANGED <<played, vc, pos, queue, msgs>> ]_vars

\* C22: disconnect_player released the voice client while a track played,
\* and the loop task then ended at an iteration of its own.
C22_Witness ==
    /\ discs >= 1
    /\ vc = "none"
    /\ played # <<>>
    /\ lastTick = "raised"
    /\ Len(tasks) = 1
    /\ tasks[1].pc = "done"

\* C23: every source given to vc.play is an audio source that
\* get_playable made from the track that is started, and no source is
\* given to vc.play twice.
C23_FreshHandle ==
    /\ \A i \in DOMAIN sources :
          \E k \in DOMAIN queue, n \in 1..Len(sources) :
              sources[i] = GetPlayable(queue[k], n)
    /\ \A i, j \in DOMAIN sources : i # j => sources[i] # sources[j]

\* C25: when the "Now playing" message that the loop deletes was already
\* deleted by somebody else, the iteration goes on: the new message is
\* sent and becomes the message of the player, or, the queue being
\* exhausted, the reference is dropped; the loop task keeps running.
C25_DeleteNotFoundTolerated ==
    [][ /\ \A t \in TaskIds :
             (tasks[t].pc = "del" /\ np \notin live /\ ~tasks[t].cancel /\ NpDeleted(t))
             => (tasks'[t].pc = "send" /\ tasks'[t].notFound)
        /\ \A t \in TaskIds :
             (tasks[t].pc = "send" /\ tasks[t].notFound /\ ~tasks[t].cancel /\ NpSent(t))
             => /\ msgs' = msgs + 1
                /\ np' = msgs'
                /\ np' \in live'
                /\ vc # "none" => tasks'[t].pc = "sleep"
        /\ \A t \in TaskIds :
             (tasks[t].pc = "exdel" /\ np \notin live /\ ~tasks[t].cancel /\ NpCleared(t))
             => (np' = 0 /\ tasks'[t].pc = "sleep") ]_vars

\* C25: somebody deleted the message of the first track; the loop, starting
\* the second track, met discord.NotFound and is sending the new message.
C25_Witness ==
    /\ tasks[loopTask].pc = "send"
    /\ tasks[loopTask].notFound
    /\ Len(played) = 2
    /\ msgs = 1
    /\ live = {}

\* C26: a YouTube search without results, a Spotify search without
\* results, and a SoundCloud URL that does not resolve to a track each
\* make from_query raise NotFoundError (no other exception, no Track).
C26_NoResultIsNotFound ==
    ( /\ res.stage = "done"
      /\ \/ /\ res.func = "make_youtube_track"
            /\ InferFromUrl(res.query) = None
            /\ res.yt \in YtNoResult
         \/ /\ res.func = "make_spotify_track_from_search"
            /\ res.sp = "nothing"
         \/ /\ res.func = "make_soundcloud_track_from_url"
            /\ res.sc \in {"TypeError", "other"} )
    => res.result = Raise("NotFoundError")

\* C27: a resolution through Spotify and then YouTube whose answers hold
\* an empty or blank name or stream URL raises NotFoundError; it never
\* yields a Track whose title, artist or stream URL is empty or blank.
C27_NoEmptyFields ==
    ( /\ res.stage = "done"
      /\ res.func \in {"make_spotify_track_from_search", "make_spotify_track_from_url"} )
    => /\ IsOk(res.result) =>
             /\ res.result.value.title # "blank"
             /\ res.result.value.artist # "blank"
             /\ res.result.value.stream_url # "blank"
       /\ (res.sp = "blank" \/ (res.sp = "track" /\ res.yt = "blank"))
             => res.result = Raise("NotFoundError")

\* C28: on every state of the player, _get_next_track either returns None,
\* the queue being exhausted, and leaves pos, or returns queue[pos] and
\* adds one to pos; an iteration of the loop changes pos in no other way,
\* and the track it starts is the one pos marked.
C28_PosMarksNextTrack ==
    /\ [] LET n == GetNextTrack(queue, pos)
          IN  /\ pos = Len(queue) => (IsNone(n.track) /\ n.pos = pos)
              /\ pos < Len(queue) => (n.track = Ok(queue[pos + 1]) /\ n.pos = pos + 1)
    /\ [][ \A t \in TaskIds, ok \in BOOLEAN :
              RunOneIteration(t, ok) =>
                 /\ pos' \in {pos, pos + 1}
                 /\ pos' = pos + 1 => pos < Len(queue)
                 /\ played' # played => (pos' = pos + 1 /\ played' = Append(played, queue[pos + 1].rid)) ]_vars

\* C28: the loop started the second track of the queue, and pos marks the
\* end of the queue.
C28_Witness ==
    /\ Len(queue) = 2
    /\ pos = 2
    /\ played = <<queue[1].rid, queue[2].rid>>
    /\ discs = 0

C29_GuildsIsolated ==
    /\ [][ peer' # peer
              => UNCHANGED <<queue, pos, tasks, loopTask, np, live, msgs, vc, played>> ]_vars
    /\ [][ <<queue, pos, tasks, loopTask, np, live, msgs, vc, played>>'
              # <<queue, pos, tasks, loopTask, np, live, msgs, vc, played>>
              => peer' = peer ]_vars

\* C29: both guilds have a track in their queue and have started it; this
\* guild went through a disconnect and the end of its loop, the other
\* through a disconnect and a reconnect.
C29_Witness ==
    /\ queue # <<>>
    /\ played # <<>>
    /\ discs >= 1
    /\ tasks[loopTask].pc = "done"
    /\ peer.queue # <<>>
    /\ peer.pos = 0
    /\ peer.vc = "idle"
    /\ peer.np = 1

\* C30: the iteration that starts a track sends the message of that track
\* and makes it the message of the player; whenever the loop task is
\* between two iterations, the message the player refers to, if any, shows
\* the track that was handed to the voice client last.
C30_NotificationShowsCurrentTrack ==
    /\ [][ \A t \in TaskIds :
              (NpSent(t) /\ msgs' # msgs)
                 => /\ npFor'[msgs'] = played[Len(played)]
                    /\ np' = msgs'
                    /\ np' \in live' ]_vars
    /\ []( (np # 0 /\ tasks[loopTask].pc = "sleep")
             => (played # <<>> /\ npFor[np] = played[Len(played)]) )

\* C30: the second track plays, its message replaced that of the first,
\* and the loop task is between two iterations.
C30_Witness ==
    /\ Len(played) = 2
    /\ played[1] # played[2]
    /\ np = 2
    /\ npFor = played
    /\ live = {2}
    /\ vc = "playing"
    /\ tasks[loopTask].pc = "sleep"

\* C31: every play_track call that has ended has sent one response: the
\* error message when Track.from_query raised NotFoundError or ValueError,
\* the queued message in every other case.
C31_OneResponsePerCall ==
    \A r \in DOMAIN reqs :
        reqs[r].out # "pending" =>
            IF reqs[r].exc = "NotFoundError" THEN reqs[r].out = "notfound"
            ELSE IF reqs[r].exc = "ValueError" THEN reqs[r].out = "invalid"
            ELSE reqs[r].out = "queued"

\* C32: when the voice client is connected to a channel with a human in it
\* and a join or play command asks for another channel, the voice client
\* stays where it is, the caller is told that the bot is in use,
\* _join_channel returns None, and the play command reaches neither
\* get_player nor play_track: nothing is resolved or appended.
C32_BusyElsewhereRefused ==
    [][ LET c == voice'.last
            asked == IF c.channel = None THEN voice.at[c.author] ELSE c.channel
        IN  (/\ c # voice.last
             /\ voice.bot # None
             /\ voice.connected
             /\ HasHumans(voice.at, voice.bot)
             /\ asked # None
             /\ asked # voice.bot)
              => /\ voice'.bot = voice.bot
                 /\ voice'.connected = voice.connected
                 /\ c.sent = "in_use"
                 /\ c.ret = None
                 /\ c.player = None
                 /\ UNCHANGED <<res, reqs, queue, players, tasks, loopTask>> ]_vars

\* C32: a play command was refused: its author is in one channel, the bot
\* is connected to the other one together with the other member.
C32_Witness ==
    /\ voice.last.cmd = "play"
    /\ voice.last.sent = "in_use"
    /\ voice.bot = "v1"
    /\ voice.connected
    /\ voice.at[voice.last.author] = "v2"
    /\ \E m \in Members : voice.at[m] = "v1"

\* C33: the logger of a guild is set up at the first lookup of the guild
\* only: however often a guild is looked up, its logger was set up at most
\* once and has the two handlers of one set-up.
C33_SetUpOncePerGuild ==
    \A g \in Guilds : logs.setups[g] <= 1 /\ logs.handlers[g] <= 2

\* C34: a track that the voice client played to its end is never handed
\* to the voice client again, whatever disconnect_player calls and
\* reconnections come in between.
C34_FinishedNeverReplayed ==
    [][ Len(played') > Len(played) => played'[Len(played')] \notin finished ]_vars

\* C35: when vc.play raises in an iteration, the loop task ends and pos
\* is what it was before the iteration, so that it still is the index of
\* the track that was not started.
C35_FailedPlayKeepsTrack ==
    [][ \A t \in TaskIds :
          (/\ RunOneIteration(t, FALSE)
           /\ ~tasks[t].cancel
           /\ vc # "none"
           /\ ~DeviceBusy(vc)
           /\ IsOk(GetNextTrack(queue, pos).track))
             => /\ tasks'[t].pc \in {"cleanup", "done"}
                /\ played' = played
                /\ pos' = pos
                /\ queue'[pos' + 1] = GetNextTrack(queue, pos).track.value ]_vars

\* C36: with the voice client present throughout and every track played to
\* its end, each track of the queue is eventually handed to the voice
\* client; no track is handed to it twice, and the tracks are handed over
\* in the order of the queue.
C36_QueueDrains ==
    /\ \A i \in 1..MaxReq :
          (Len(queue) >= i) ~> (Len(played) >= i /\ played[i] = queue[i].rid)
    /\ [](\A i, j \in DOMAIN played : played[i] = played[j] => i = j)
    /\ [](Len(played) <= Len(queue))
    /\ [][ Len(played') > Len(played) =>
             played'[Len(played')] = queue[Len(played) + 1].rid ]_vars
    /\ <>[](Len(played) = Len(queue))

\* C36: every request was queued, and the voice client has played each of
\* the tracks to its end, the last one included.
C36_Witness ==
    /\ Len(queue) = MaxReq
    /\ Len(played) = MaxReq
    /\ \A i \in 1..MaxReq : played[i] = queue[i].rid
    /\ pos = Len(queue)
    /\ vc = "idle"

\* C37: for a recognized URL u, Track.from_query of u in suppression
\* brackets picks the helper it picks for u and has it send u itself,
\* without the brackets, to the client of the platform.
C37_BracketsStripped ==
    LET u == RStrip(LStrip(res.query))
    IN  (/\ res.stage # "idle"
         /\ InferFromUrl(u) # None
         /\ res.query \in {u, <<"<">> \o u \o <<">">>})
          => /\ res.func = FromQuery(u, res.hint).func
             /\ res.arg = HelperArgument(u)

\* C38: an iteration that finds the guild without a voice client raises
\* InvariantError before it takes a track: the loop task goes to its
\* cleanup, and pos and the queue are what they were before the iteration.
C38_FailingTickTakesNothing ==
    [][ \A t \in TaskIds, ok \in BOOLEAN :
          (RunOneIteration(t, ok) /\ vc = "none" /\ ~tasks[t].cancel)
             => /\ tasks'[t].pc \in {"cleanup", "done"}
                /\ lastTick' = "raised"
                /\ pos' = pos
                /\ queue' = queue
                /\ played' = played ]_vars

\* C38: a loop task has ended at an iteration without a voice client while
\* a track of the queue was still to be played.
C38_Witness ==
    /\ lastTick = "raised"
    /\ vc = "none"
    /\ pos < Len(queue)
    /\ played = <<>>
    /\ tasks[1].pc = "done"

====
